---- MODULE Spec2Model ----
(***************************************************************************)
(* docker_netpol_heps.py: discovery of Docker networks carrying the        *)
(* netpol.app label, derivation of one Calico HostEndpoint manifest per    *)
(* network, optional file output, optional application through the         *)
(* apply_calico_manifests.sh helper, and the final listing or summary.     *)
(*                                                                         *)
(* One behaviour of the model is one invocation of main().  The runtime    *)
(* (docker), the helper and the command line are the environment: the      *)
(* command line is fixed in Init, the listing is chosen when               *)
(* `docker network ls` returns, every descriptor when its                  *)
(* `docker network inspect` returns, every helper outcome when the helper  *)
(* is run.                                                                 *)
(***************************************************************************)
EXTENDS Integers, Sequences, FiniteSets, TLC

\* Largest number of network ids `docker network ls` prints in a modelled run.
MaxNets == 2

----------------------------------------------------------------------------
(* JSON values read from `docker network inspect`.  A member of a JSON     *)
(* object is absent, null, or an object of string members.                 *)

MARKER == "netpol.app"
APP_ID_KEY == "netpol.app_id"
ROLE_KEY == "netpol.role"
BRIDGE_KEY == "com.docker.network.bridge.name"
UNKNOWN == "unknown"

Absent == [kind |-> "absent", obj |-> <<>>]
Null == [kind |-> "null", obj |-> <<>>]
Obj(f) == [kind |-> "object", obj |-> f]
EmptyDict == Obj(<<>>)

\* The values each label key takes in the modelled runs.
LabelVals(k) ==
    IF k = MARKER THEN {"", "web"}
    ELSE IF k = APP_ID_KEY THEN {"7"}
    ELSE {"db"}

LabelKeys == {MARKER, APP_ID_KEY, ROLE_KEY}

\* The label maps of the modelled runs: every combination of presence of
\* the three keys; the empty marker value and the maps without the marker
\* are taken with the fewest other keys, to keep the run count small.
LabelMaps ==
    { f \in UNION { [S -> {"", "web", "7", "db"}] : S \in SUBSET LabelKeys } :
        /\ \A k \in DOMAIN f : f[k] \in LabelVals(k)
        /\ (MARKER \in DOMAIN f /\ f[MARKER] = "") => DOMAIN f = {MARKER}
        /\ MARKER \notin DOMAIN f => DOMAIN f \subseteq {ROLE_KEY} }

LabelValues == {Absent, Null} \cup { Obj(f) : f \in LabelMaps }

BridgeNames == {"", "br-a"}

OptionMaps == {<<>>} \cup { [k \in {BRIDGE_KEY} |-> b] : b \in BridgeNames }

OptionValues == {Absent, Null} \cup { Obj(f) : f \in OptionMaps }

\* A network descriptor as main() reads it: Name, Labels, Options.
Descriptor(id, labels, options) ==
    [Name |-> id, Labels |-> labels, Options |-> options]

\* Outcomes of running an external command with subprocess.run(check=True).
CmdOutcomes == {"ok", "nonzero", "cannot_exec"}

NodeName == "node-1"

----------------------------------------------------------------------------
VARIABLES
    pc,             \* position of main(): start, inspect, loop, done
    args,           \* parsed command line: apply, dry_run, output_dir
    network_ids,    \* lines of `docker network ls --format {{.ID}}`
    lineno,         \* index of the next line of network_ids to inspect
    cmd_log,        \* outcome of every runtime command run so far
    seen,           \* Labels member of every descriptor inspected so far
    networks,       \* get_docker_networks: the retained descriptors
    idx,            \* index in networks of the next network main() processes
    heps,           \* main: heps
    files,          \* output directory: filename -> manifest written last
    submissions,    \* helper invocations: manifest, dry-run flag, outcome
    applied_count,  \* main: applied_count
    failed_count,   \* main: failed_count
    stdout,         \* lines and documents printed to standard output
    stderr,         \* diagnostics printed to standard error
    exit_code       \* process exit status, -1 while running

vars == <<pc, args, network_ids, lineno, cmd_log, seen, networks, idx, heps,
          files, submissions, applied_count, failed_count, stdout, stderr,
          exit_code>>

----------------------------------------------------------------------------
(* Python helpers *)

\* dict.get(key, default) on the descriptor: the default is used only when
\* the member is absent; a null member is returned as None.
DictGet(member, default) == IF member.kind = "absent" THEN default ELSE member

\* Truth value of a dict-or-None: None and {} are false.
Truthy(v) == v.kind = "object" /\ DOMAIN v.obj # {}

\* labels.get(key, default) on a dict of strings.
StrGet(f, k, default) == IF k \in DOMAIN f THEN f[k] ELSE default

\* run_command without check=True: a non-zero status is not noticed.
run_command_unchecked(outcome) ==
    IF outcome = "cannot_exec" THEN [exits |-> TRUE, code |-> 1]
    ELSE [exits |-> FALSE, code |-> 0]

\* run_command: returns on success; a non-zero status reaches sys.exit(1),
\* a command that cannot be executed raises an uncaught exception (status 1).
run_command(outcome) ==
    IF outcome = "ok" THEN [exits |-> FALSE, code |-> 0]
    ELSE [exits |-> TRUE, code |-> 1]

\* The filter testing the marker's value instead of its presence.
isPolicyRelevant_byValue(network_data) ==
    LET labels == DictGet(network_data.Labels, EmptyDict)
    IN  Truthy(labels) /\ StrGet(labels.obj, MARKER, "") # ""

\* get_docker_networks, line 45: `labels and 'netpol.app' in labels`.
isPolicyRelevant(network_data) ==
    LET labels == DictGet(network_data.Labels, EmptyDict)
    IN  Truthy(labels) /\ MARKER \in DOMAIN labels.obj

\* The document with the role label filled from the app-id value.
HepManifest_roleFromAppId(bridge_name, app_name, app_id, role_name, node_name) ==
    [apiVersion |-> "projectcalico.org/v3",
     kind |-> "HostEndpoint",
     metadata |->
        [name |-> bridge_name,
         labels |-> [k \in {"app", "app-id", "role"} |->
                        IF k = "app" THEN app_name ELSE app_id]],
     spec |-> [node |-> node_name, interfaceName |-> bridge_name]]

\* The HostEndpoint document of lines 66-81.
HepManifest(bridge_name, app_name, app_id, role_name, node_name) ==
    [apiVersion |-> "projectcalico.org/v3",
     kind |-> "HostEndpoint",
     metadata |->
        [name |-> bridge_name,
         labels |-> [k \in {"app", "app-id", "role"} |->
                        IF k = "app" THEN app_name
                        ELSE IF k = "app-id" THEN app_id
                        ELSE role_name]],
     spec |-> [node |-> node_name, interfaceName |-> bridge_name]]

\* f"hep-{app_name}-{role_name}.yaml"
HepFilename(app_name, role_name) == <<"hep-", app_name, "-", role_name, ".yaml">>

\* generate_hep_manifest: None when the bridge name is missing or empty, the
\* hep_data dict otherwise.  `.get` on a None (a null Options member, a null
\* Labels member) raises AttributeError.
generate_hep_manifest(network, node_name) ==
    LET labels == DictGet(network.Labels, EmptyDict)
        options == DictGet(network.Options, EmptyDict)
    IN  IF options.kind = "null" THEN [kind |-> "raise"]
        ELSE
        LET bridge_name == StrGet(options.obj, BRIDGE_KEY, "")
        IN  IF bridge_name = "" THEN [kind |-> "none"]
            ELSE IF labels.kind = "null" THEN [kind |-> "raise"]
            ELSE
            LET app_name == StrGet(labels.obj, MARKER, UNKNOWN)
                app_id == StrGet(labels.obj, APP_ID_KEY, UNKNOWN)
                role_name == StrGet(labels.obj, ROLE_KEY, UNKNOWN)
            IN  [kind |-> "hep",
                 data |->
                    [manifest |-> HepManifest(bridge_name, app_name, app_id,
                                              role_name, node_name),
                     filename |-> HepFilename(app_name, role_name),
                     network_name |-> network.Name,
                     bridge_name |-> bridge_name,
                     labels |-> labels.obj]]

\* apply_hep_manifest catching CalledProcessError only: a helper that cannot
\* be run raises out of the call.
apply_hep_manifest_uncaught(outcome) ==
    [raised |-> outcome = "cannot_exec", value |-> outcome = "ok"]

\* apply_hep_manifest: True when the helper ran and returned success; a
\* non-zero status (CalledProcessError) and any other exception (the helper
\* cannot be run) are caught and give False, so the call never raises.
apply_hep_manifest(outcome) == [raised |-> FALSE, value |-> outcome = "ok"]

\* The helper run without ever passing --dry-run.
HelperDryRunFlag_dropped(dry_run) == FALSE

\* The helper's command line: --dry-run is appended iff dry_run is set.
HelperDryRunFlag(dry_run) == dry_run

----------------------------------------------------------------------------
ArgValues == [apply : BOOLEAN, dry_run : BOOLEAN, output_dir : BOOLEAN]

\* The id listings of the modelled runs: ids 1..n, n <= MaxNets.  The empty
\* listing is the `return []` of line 32.  run_command strips the output and
\* docker prints one id per line, so no line is blank and the `continue` of
\* line 37 is never taken.
Listings == { [i \in 1..n |-> i] : n \in 0..MaxNets }

Init ==
    /\ pc = "start"
    /\ args \in ArgValues
    /\ network_ids = <<>>
    /\ lineno = 1
    /\ cmd_log = <<>>
    /\ seen = <<>>
    /\ networks = <<>>
    /\ idx = 1
    /\ heps = <<>>
    /\ files = <<>>
    /\ submissions = <<>>
    /\ applied_count = 0
    /\ failed_count = 0
    /\ stdout = <<>>
    /\ stderr = <<>>
    /\ exit_code = -1

\* The process ends with `code` after a failed runtime command.
RuntimeExit(code, what) ==
    /\ pc' = "done"
    /\ exit_code' = code
    /\ stderr' = Append(stderr, [kind |-> what])

\* Line 30: `docker network ls`.
ListNetworks ==
    /\ pc = "start"
    /\ \E outcome \in CmdOutcomes, ids \in Listings :
          LET r == run_command(outcome)
          IN  /\ cmd_log' = Append(cmd_log, outcome)
              /\ IF r.exits
                 THEN /\ RuntimeExit(r.code, "command-error")
                      /\ UNCHANGED network_ids
                 ELSE /\ network_ids' = ids
                      /\ pc' = "inspect"
                      /\ UNCHANGED <<exit_code, stderr>>
    /\ UNCHANGED <<args, lineno, seen, networks, idx, heps, files, submissions,
                   applied_count, failed_count, stdout>>

\* Lines 35-46: one iteration of the loop over the listed ids.
InspectNetwork ==
    /\ pc = "inspect"
    /\ lineno <= Len(network_ids)
    /\ \E outcome \in CmdOutcomes, labels \in LabelValues, options \in OptionValues :
          LET r == run_command(outcome)
              network_data == Descriptor(network_ids[lineno], labels, options)
          IN  /\ cmd_log' = Append(cmd_log, outcome)
              /\ IF r.exits
                 THEN /\ RuntimeExit(r.code, "command-error")
                      /\ UNCHANGED <<lineno, seen, networks>>
                 ELSE /\ seen' = Append(seen, labels)
                      /\ networks' = IF isPolicyRelevant(network_data)
                                     THEN Append(networks, network_data)
                                     ELSE networks
                      /\ lineno' = lineno + 1
                      /\ UNCHANGED <<pc, exit_code, stderr>>
    /\ UNCHANGED <<args, network_ids, idx, heps, files, submissions,
                   applied_count, failed_count, stdout>>

\* Lines 48 and 139-145: get_docker_networks returns; main returns at once
\* when nothing was retained.
DiscoveryDone ==
    /\ pc = "inspect"
    /\ lineno > Len(network_ids)
    /\ IF networks = <<>>
       THEN /\ stdout' = Append(stdout,
                            IF args.apply
                            THEN [kind |-> "text", text |-> "No networks with netpol labels found"]
                            ELSE [kind |-> "json", doc |-> <<>>])
            /\ pc' = "done"
            /\ exit_code' = 0
       ELSE /\ pc' = "loop"
            /\ UNCHANGED <<stdout, exit_code>>
    /\ UNCHANGED <<args, network_ids, lineno, cmd_log, seen, networks, idx, heps,
                   files, submissions, applied_count, failed_count, stderr>>

\* Lines 160-166: the manifest is dumped to <output_dir>/<filename>, replacing
\* what an earlier write left under that name.
WriteFile(fs, hep_data) ==
    [n \in DOMAIN fs \cup {hep_data.filename} |->
        IF n = hep_data.filename THEN hep_data.manifest ELSE fs[n]]

\* Lines 96-112: one run of the helper, the manifest on its standard input.
Submission(manifest, dry_run, outcome) ==
    [doc |-> manifest, dry_run |-> HelperDryRunFlag(dry_run), outcome |-> outcome]

\* applied_count incremented before the result is tested.
CountApplied_always(n, ok) == n + 1

\* Lines 171-179: the counters after one submission.
CountApplied(n, ok) == IF ok THEN n + 1 ELSE n
CountFailed(n, ok) == IF ok THEN n ELSE n + 1

\* Lines 174-179: the line printed after one submission.
ResultLine(ok, dry_run, name) ==
    [kind |-> IF ~ok THEN "failed" ELSE IF dry_run THEN "dry-run-ok" ELSE "applied",
     name |-> name]

\* Lines 152-179: one iteration of the loop over the retained networks.
ProcessNetwork ==
    /\ pc = "loop"
    /\ idx <= Len(networks)
    /\ \E outcome \in CmdOutcomes :
          LET network == networks[idx]
              r == generate_hep_manifest(network, NodeName)
          IN  CASE r.kind = "raise" ->
                     \* uncaught AttributeError: traceback, status 1
                     /\ pc' = "done"
                     /\ exit_code' = 1
                     /\ stderr' = Append(stderr, [kind |-> "traceback"])
                     /\ UNCHANGED <<idx, heps, files, submissions, applied_count,
                                    failed_count, stdout>>
                [] r.kind = "none" ->
                     /\ stderr' = Append(stderr, [kind |-> "warning", name |-> network.Name])
                     /\ idx' = idx + 1
                     /\ UNCHANGED <<pc, exit_code, heps, files, submissions,
                                    applied_count, failed_count, stdout>>
                [] r.kind = "hep" ->
                     LET hep_data == r.data
                         res == apply_hep_manifest(outcome)
                         ok == res.value
                         written == IF args.output_dir
                                    THEN <<[kind |-> "written", file |-> hep_data.filename]>>
                                    ELSE <<>>
                         applying == [kind |-> "applying",
                                      network |-> network.Name,
                                      bridge |-> hep_data.bridge_name]
                     IN  /\ heps' = Append(heps, hep_data)
                         /\ files' = IF args.output_dir
                                     THEN WriteFile(files, hep_data)
                                     ELSE files
                         /\ IF ~args.apply
                            THEN /\ stdout' = stdout \o written
                                 /\ idx' = idx + 1
                                 /\ UNCHANGED <<submissions, applied_count, failed_count,
                                                stderr, pc, exit_code>>
                            ELSE /\ submissions' =
                                       Append(submissions,
                                              Submission(hep_data.manifest, args.dry_run, outcome))
                                 /\ IF res.raised
                                    THEN \* an exception leaving apply_hep_manifest ends main()
                                         /\ stdout' = stdout \o written \o <<applying>>
                                         /\ stderr' = Append(stderr, [kind |-> "traceback"])
                                         /\ pc' = "done"
                                         /\ exit_code' = 1
                                         /\ UNCHANGED <<idx, applied_count, failed_count>>
                                    ELSE /\ stdout' = stdout \o written \o
                                                <<applying,
                                                  ResultLine(ok, args.dry_run,
                                                             hep_data.manifest.metadata.name)>>
                                         /\ applied_count' = CountApplied(applied_count, ok)
                                         /\ failed_count' = CountFailed(failed_count, ok)
                                         /\ stderr' = IF ok THEN stderr
                                                      ELSE Append(stderr, [kind |-> "apply-error"])
                                         /\ idx' = idx + 1
                                         /\ UNCHANGED <<pc, exit_code>>
    /\ UNCHANGED <<args, network_ids, lineno, cmd_log, seen, networks>>

\* Lines 184-185: the status main() ends with after the loop.
ExitStatus(apply, failed) == IF apply /\ failed > 0 THEN 1 ELSE 0

\* The end of main() leaving with status 1 before the summary is printed.
Output_exitBeforeSummary ==
    /\ pc = "loop"
    /\ idx > Len(networks)
    /\ stdout' = IF args.apply
                 THEN IF failed_count > 0 THEN stdout
                      ELSE Append(stdout, [kind |-> "summary", applied |-> applied_count,
                                           failed |-> failed_count])
                 ELSE Append(stdout, [kind |-> "json", doc |-> heps])
    /\ exit_code' = IF args.apply /\ failed_count > 0 THEN 1 ELSE 0
    /\ pc' = "done"
    /\ UNCHANGED <<args, network_ids, lineno, cmd_log, seen, networks, idx, heps,
                   files, submissions, applied_count, failed_count, stderr>>

\* Lines 181-188: the summary in apply mode, the JSON listing otherwise.
Output ==
    /\ pc = "loop"
    /\ idx > Len(networks)
    /\ stdout' = Append(stdout,
                    IF args.apply
                    THEN [kind |-> "summary", applied |-> applied_count,
                          failed |-> failed_count]
                    ELSE [kind |-> "json", doc |-> heps])
    /\ exit_code' = ExitStatus(args.apply, failed_count)
    /\ pc' = "done"
    /\ UNCHANGED <<args, network_ids, lineno, cmd_log, seen, networks, idx, heps,
                   files, submissions, applied_count, failed_count, stderr>>

Next ==
    \/ ListNetworks
    \/ InspectNetwork
    \/ DiscoveryDone
    \/ ProcessNetwork
    \/ Output

Spec == Init /\ [][Next]_vars

----------------------------------------------------------------------------
(* Properties *)

Range(seq) == { seq[i] : i \in 1..Len(seq) }

\* Some runtime command (the listing or an inspection) did not succeed.
RuntimeFailed == \E i \in 1..Len(cmd_log) : cmd_log[i] # "ok"

\* The interface identifier of a descriptor, "" when it has none.
BridgeOf(network) ==
    IF network.Options.kind = "object" /\ BRIDGE_KEY \in DOMAIN network.Options.obj
    THEN network.Options.obj[BRIDGE_KEY]
    ELSE ""

\* C1: once the listing call or an inspection call has failed, the run is
\* over with a non-zero exit status and has produced nothing: no manifest
\* derived, no file written, no submission, nothing on standard output.
C1_FatalRuntimeErrorAborts ==
    RuntimeFailed =>
        /\ pc = "done"
        /\ exit_code = 1
        /\ heps = <<>>
        /\ files = <<>>
        /\ submissions = <<>>
        /\ stdout = <<>>

\* An inspection fails after a network with the marker and a bridge name was
\* inspected successfully and retained.
C1_Witness ==
    /\ RuntimeFailed
    /\ Len(cmd_log) >= 3
    /\ \E i \in 1..Len(networks) : BridgeOf(networks[i]) # ""

\* The documents handed to the helper, in order of submission.
SubmittedDocs == [i \in 1..Len(submissions) |-> submissions[i].doc]

\* The manifests derived so far, in order of derivation.
DerivedDocs == [i \in 1..Len(heps) |-> heps[i].manifest]

\* C2 (state part): in apply mode the helper has been run exactly once for
\* every manifest derived so far, in the order of derivation, which is the
\* order of enumeration.
C2_SubmittedIsDerived ==
    /\ args.apply => SubmittedDocs = DerivedDocs
    /\ \A i, j \in 1..Len(heps) : i < j => heps[i].network_name < heps[j].network_name

\* C2 (step part): a step that runs the helper moves on to the next network
\* whatever the helper's outcome, and the loop is left for the summary only
\* after the last network.
C2_SubmissionStepAdvances ==
    /\ Len(submissions') > Len(submissions) => (pc' = "loop" /\ idx' = idx + 1)
    /\ (Len(stdout') > Len(stdout) /\ stdout'[Len(stdout')].kind = "summary")
          => idx > Len(networks)

\* C2: in apply mode every derived manifest is submitted exactly once, in
\* enumeration order, and a failed submission never prevents the later ones.
C2_EveryManifestSubmittedOnce ==
    [](C2_SubmittedIsDerived) /\ [][C2_SubmissionStepAdvances]_vars

\* Two manifests were submitted, the first of them to a helper that could
\* not be run.
C2_Witness ==
    /\ args.apply
    /\ Len(submissions) = 2
    /\ submissions[1].outcome = "cannot_exec"
    /\ pc = "done"

\* C5: a submission without the dry-run flag happens only in a run given
\* --apply and not --dry-run; without --apply the helper is never run; with
\* --apply --dry-run every run of the helper carries the flag.
C5_LiveSubmissionOnlyOnApply ==
    /\ ~args.apply => submissions = <<>>
    /\ \A i \in 1..Len(submissions) :
          /\ ~submissions[i].dry_run => (args.apply /\ ~args.dry_run)
          /\ (args.apply /\ args.dry_run) => submissions[i].dry_run

\* A run with --apply --dry-run has run the helper twice.
C5_Witness == args.apply /\ args.dry_run /\ Len(submissions) = 2

\* The label map holds the enablement marker key, whatever its value.
HasMarker(labels) == labels.kind = "object" /\ MARKER \in DOMAIN labels.obj

\* C6: the retained networks are exactly the inspected networks whose label
\* map holds the marker key, in order; every manifest, file, submission and
\* listing entry comes from a retained network.
C6_FilterByMarkerPresence ==
    /\ [i \in 1..Len(networks) |-> networks[i].Labels] = SelectSeq(seen, HasMarker)
    /\ \A h \in Range(heps) :
          /\ MARKER \in DOMAIN h.labels
          /\ \E n \in Range(networks) : n.Name = h.network_name /\ HasMarker(n.Labels)
    /\ \A f \in DOMAIN files :
          \E h \in Range(heps) : h.filename = f /\ h.manifest = files[f]
    /\ Range(SubmittedDocs) \subseteq Range(DerivedDocs)
    /\ \A e \in Range(stdout) : e.kind = "json" => e.doc = heps

\* A network whose marker value is empty and a network with a null label map
\* were both inspected, and the run went on to derive from the former.
C6_Witness ==
    /\ \E i \in 1..Len(seen) : seen[i] = Null
    /\ \E i \in 1..Len(seen) : seen[i].kind = "object" /\ seen[i].obj = [k \in {MARKER} |-> ""]
    /\ Len(heps) = 1
    /\ pc = "done"

\* The value a manifest label takes for a label key of the network.
LabelOrUnknown(labels, key) == IF key \in DOMAIN labels THEN labels[key] ELSE "unknown"

\* The entries of heps derived from the network called `name`.
HepsOf(name) == { i \in 1..Len(heps) : heps[i].network_name = name }

\* C7: every retained network already processed whose interface identifier
\* is present has exactly one manifest; its metadata.name and
\* spec.interfaceName are the identifier, spec.node is the node name, and
\* app, app-id and role are each the network's label value when the key is
\* present and "unknown" when it is absent, independently of the other keys.
C7_ManifestFromIdentifierAndLabels ==
    \A k \in 1..Len(networks) :
        (k < idx /\ BridgeOf(networks[k]) # "") =>
            /\ Cardinality(HepsOf(networks[k].Name)) = 1
            /\ \A i \in HepsOf(networks[k].Name) :
                  LET m == heps[i].manifest
                      l == networks[k].Labels.obj
                  IN  /\ m.metadata.name = BridgeOf(networks[k])
                      /\ m.spec.interfaceName = BridgeOf(networks[k])
                      /\ m.spec.node = NodeName
                      /\ DOMAIN m.metadata.labels = {"app", "app-id", "role"}
                      /\ m.metadata.labels["app"] = LabelOrUnknown(l, MARKER)
                      /\ m.metadata.labels["app-id"] = LabelOrUnknown(l, APP_ID_KEY)
                      /\ m.metadata.labels["role"] = LabelOrUnknown(l, ROLE_KEY)

\* Two manifests were derived, one from a network with the role label and no
\* app-id label, one from a network with the app-id label and no role label.
C7_Witness ==
    /\ Len(heps) = 2
    /\ \E i, j \in 1..2 :
          /\ ROLE_KEY \in DOMAIN heps[i].labels /\ APP_ID_KEY \notin DOMAIN heps[i].labels
          /\ APP_ID_KEY \in DOMAIN heps[j].labels /\ ROLE_KEY \notin DOMAIN heps[j].labels
          /\ heps[i].manifest.metadata.labels["role"] = "db"
          /\ heps[i].manifest.metadata.labels["app-id"] = "unknown"
          /\ heps[j].manifest.metadata.labels["role"] = "unknown"

\* The number of submissions so far whose helper run succeeded / did not.
Succeeded == { i \in 1..Len(submissions) : submissions[i].outcome = "ok" }
NotSucceeded == { i \in 1..Len(submissions) : submissions[i].outcome # "ok" }

\* C10 (state part): in apply mode applied_count + failed_count is the
\* number of manifests derived so far, applied_count the number of successful
\* submissions (dry-run ones included), failed_count the number of failed
\* ones, and a printed summary reports exactly these.
C10_CountsMatchSubmissions ==
    args.apply =>
        /\ applied_count + failed_count = Len(heps)
        /\ applied_count = Cardinality(Succeeded)
        /\ failed_count = Cardinality(NotSucceeded)
        /\ \A e \in Range(stdout) :
              e.kind = "summary" =>
                 /\ e.applied = Cardinality(Succeeded)
                 /\ e.failed = Cardinality(NotSucceeded)

\* C10 (step part): the counters never decrease, and a step that derives no
\* manifest (a skipped network) changes neither.
C10_CountsMonotone ==
    /\ applied_count' >= applied_count
    /\ failed_count' >= failed_count
    /\ Len(heps') = Len(heps) =>
          (applied_count' = applied_count /\ failed_count' = failed_count)

\* C10: the aggregate counts every derived manifest exactly once.
C10_AggregateCounts ==
    [](C10_CountsMatchSubmissions) /\ [][C10_CountsMonotone]_vars

\* A dry-run apply run printed its summary after one successful and one
\* failed submission.
C10_Witness ==
    /\ args.apply /\ args.dry_run
    /\ pc = "done"
    /\ applied_count = 1 /\ failed_count = 1
    /\ \E e \in Range(stdout) : e.kind = "summary"

\* C3: the exit status is 1 exactly when a runtime command failed or, in
\* apply mode, at least one submission failed; it is 0 in every other run
\* that ends.
C3_ExitCodeIffFailure ==
    pc = "done" =>
        /\ exit_code \in {0, 1}
        /\ exit_code = 1 <=> (RuntimeFailed \/ (args.apply /\ NotSucceeded # {}))

\* C4: without --apply nothing but JSON documents is written to standard
\* output, and a run that ends with status 0 has written exactly one, the
\* listing of the derived manifests.
C4_StdoutIsOneListing ==
    ~args.apply =>
        /\ \A e \in Range(stdout) : e.kind = "json"
        /\ (pc = "done" /\ exit_code = 0) => stdout = <<[kind |-> "json", doc |-> heps]>>

\* C8: a retained network without an interface identifier yields no
\* manifest and does not end the run: a run that ends after a successful
\* discovery has processed every retained network, and ends with status 0
\* unless a submission failed.
C8_MissingIdentifierIsSkipped ==
    \A k \in 1..Len(networks) :
        BridgeOf(networks[k]) = "" =>
            /\ HepsOf(networks[k].Name) = {}
            /\ (pc = "done" /\ ~RuntimeFailed) =>
                  /\ idx > Len(networks)
                  /\ NotSucceeded = {} => exit_code = 0

SummaryPrinted == \E e \in Range(stdout) : e.kind = "summary"

\* C9 as stated: every apply-mode run that completes discovery has printed
\* the summary line when it ends.
C9_SummaryAlwaysPrinted ==
    (args.apply /\ pc = "done" /\ ~RuntimeFailed) => SummaryPrinted

\* C9 as amended: an apply-mode run that completes discovery ends with the
\* summary line, reporting the two counts, as its last output exactly when at
\* least one network was retained and the loop over them ran to its end; with
\* no retained network it prints the no-networks notice alone and ends with
\* status 0.
C9_SummaryIffLoopCompleted ==
    (args.apply /\ pc = "done" /\ ~RuntimeFailed) =>
        /\ SummaryPrinted <=> (networks # <<>> /\ idx > Len(networks))
        /\ SummaryPrinted =>
              /\ stdout[Len(stdout)] = [kind |-> "summary", applied |-> applied_count,
                                        failed |-> failed_count]
              /\ exit_code = IF failed_count > 0 THEN 1 ELSE 0
        /\ networks = <<>> =>
              /\ stdout = <<[kind |-> "text", text |-> "No networks with netpol labels found"]>>
              /\ exit_code = 0

\* An apply-mode run ended with status 1 after printing a summary that
\* reports a failed manifest.
C9_Witness ==
    /\ args.apply
    /\ pc = "done"
    /\ exit_code = 1
    /\ stdout # <<>>
    /\ stdout[Len(stdout)].kind = "summary"
    /\ stdout[Len(stdout)].failed = 1

====
